---- MODULE Spec2Model ----
(***************************************************************************)
(* Model of pkg/workspace/workspace.go (package workspace).                *)
(*                                                                         *)
(* A path is a sequence of components; the empty sequence is the empty     *)
(* string "".  The file system is a set of directories and a map from the  *)
(* paths of regular files to their content.  A file's content is a         *)
(* sequence of lines, a line is a sequence of tokens ("dir", "=", path).   *)
(* Every method of Config is an operator on a call state                   *)
(*   [w, dirs, files, calls, ret]                                          *)
(* (the receiver, the file system, the trace of calls made, the error      *)
(* returned so far); a step whose incoming ret is not Nil is skipped: this *)
(* is the early return of the Go code.                                     *)
(***************************************************************************)
EXTENDS Naturals, Sequences, FiniteSets, TLC

VARIABLES
    w,      \* the Config value (receiver of every method)
    dirs,   \* directories on disk
    files,  \* regular files on disk: path -> content
    last,   \* the last call made by the caller: operation, inputs, result, state before
    nfaults \* OS or collaborator calls that have failed so far

vars == <<w, dirs, files, last, nfaults>>

----------------------------------------------------------------------------
(* Bounds *)

\* at most this many OS or collaborator calls fail during a run
MaxFaults == 2

----------------------------------------------------------------------------
(* Names and paths *)

Name == "ws"
configFileName == "workspace.conf"
HOME == <<"home">>

Join(p, elem) == p \o <<elem>>

Prefix(p, k) == SubSeq(p, 1, k)

Parent(p) == Prefix(p, Len(p) - 1)

SubNames == {"download", "scratch", "install", "build", "src", "run"}

Field(sub) ==
    CASE sub = "download" -> "DownloadDir"
      [] sub = "scratch"  -> "ScratchDir"
      [] sub = "install"  -> "InstallDir"
      [] sub = "build"    -> "BuildDir"
      [] sub = "src"      -> "SrcDir"
      [] sub = "run"      -> "RunDir"

----------------------------------------------------------------------------
(* Errors *)

Nil == [kind |-> "nil", what |-> ""]

\* an error of the os package (or of a collaborator), returned as it is
OsErr(label) == [kind |-> "os", what |-> label]

\* fmt.Errorf("unable to create the workspace's <purpose> directory ...")
WrappedErr(purpose) == [kind |-> "wrapped", what |-> purpose]

Undefined(what) == [kind |-> "undefined", what |-> what]

InvalidKey(key) == [kind |-> "invalid key", what |-> key]

NeedsReview == [kind |-> "bootstrap", what |-> "new configuration file created, it needs review"]

StructureErr(purpose) == [kind |-> "structure", what |-> purpose]

----------------------------------------------------------------------------
(* The file system, as the os and util packages see it *)

PathExists(s, p) == p \in s.dirs \/ p \in DOMAIN s.files

FileExists(s, p) == p \in s.dirs \/ p \in DOMAIN s.files

IsDir(s, p) == p \in s.dirs

Called(s, name) == [s EXCEPT !.calls = Append(@, name)]

Fail(s, err) == [s EXCEPT !.ret = err]

\* components of p that are regular files: os.MkdirAll stops there (ENOTDIR)
Blocked(s, p) == {k \in 1..Len(p) : Prefix(p, k) \in DOMAIN s.files}

\* os.MkdirAll(p): creates p and its missing ancestors
MkdirAll(s, p, label, faults) ==
    IF p \in s.dirs THEN s
    ELSE IF p = <<>> \/ label \in faults THEN Fail(s, OsErr(label))
    ELSE LET bad == Blocked(s, p)
             upto == IF bad = {} THEN Len(p)
                     ELSE (CHOOSE k \in bad : \A j \in bad : k <= j) - 1
             made == [s EXCEPT !.dirs = @ \cup {Prefix(p, k) : k \in 1..upto}]
         IN IF bad = {} THEN made ELSE Fail(made, OsErr(label))

\* os.Mkdir(p): creates p alone, its parent must be a directory
Mkdir(s, p, label, faults) ==
    IF \/ p = <<>>
       \/ label \in faults
       \/ PathExists(s, p)
       \/ (Len(p) > 1 /\ Parent(p) \notin s.dirs)
    THEN Fail(s, OsErr(label))
    ELSE [s EXCEPT !.dirs = @ \cup {p}]

----------------------------------------------------------------------------
(* Config.setStructure *)

setStructure(c) ==
    [c EXCEPT !.ScratchDir  = Join(c.Basedir, "scratch"),
              !.DownloadDir = Join(c.Basedir, "download"),
              !.SrcDir      = Join(c.Basedir, "src"),
              !.BuildDir    = Join(c.Basedir, "build"),
              !.InstallDir  = Join(c.Basedir, "install"),
              !.RunDir      = Join(c.Basedir, "run")]

----------------------------------------------------------------------------
(* Config.Init *)

\* if !util.IsDir(w.Basedir) { os.MkdirAll(w.Basedir); if err != nil { return err } }
EnsureBasedir(s, faults) ==
    IF IsDir(s, s.w.Basedir) THEN s
    ELSE MkdirAll(s, s.w.Basedir, "base", faults)

\* the error Init returns when the creation of the directory fails
InitErr(sub) ==
    IF sub \in {"download", "scratch", "install", "build"}
    THEN WrappedErr(sub) ELSE OsErr(sub)

\* the directory created without first looking whether it exists
EnsureSubdir_NoCheck(s, sub, faults) ==
    LET dir == s.w[Field(sub)]
        t == IF sub = "download" THEN MkdirAll(s, dir, sub, faults)
                                 ELSE Mkdir(s, dir, sub, faults)
    IN IF s.ret # Nil THEN s
       ELSE IF t.ret # Nil THEN Fail(t, InitErr(sub))
       ELSE t

\* if !util.PathExists(dir) { err := os.Mkdir(dir) / os.MkdirAll(dir); if err != nil { return ... } }
EnsureSubdir(s, sub, faults) ==
    LET dir == s.w[Field(sub)]
        t == IF sub = "download" THEN MkdirAll(s, dir, sub, faults)
                                 ELSE Mkdir(s, dir, sub, faults)
    IN IF s.ret # Nil \/ PathExists(s, dir) THEN s
       ELSE IF t.ret # Nil THEN Fail(t, InitErr(sub))
       ELSE t

Config_Init(s, faults) ==
    LET s0 == EnsureBasedir(Called(s, "Init"), faults)
        s1 == IF s0.ret # Nil THEN s0 ELSE [s0 EXCEPT !.w = setStructure(@)]
        s2 == EnsureSubdir(s1, "download", faults)
        s3 == EnsureSubdir(s2, "scratch", faults)
        s4 == EnsureSubdir(s3, "install", faults)
        s5 == EnsureSubdir(s4, "build", faults)
        s6 == EnsureSubdir(s5, "src", faults)
    IN EnsureSubdir(s6, "run", faults)

----------------------------------------------------------------------------
(* Config.getPathToConfigDir, Config.getConfigFilePath *)

\* the configuration directory named without its leading dot
getPathToConfigDir_NoDot(c) == Join(c.ConfDir, c.Name)

getPathToConfigDir(c) == Join(c.ConfDir, "." \o c.Name)

\* the receiver after getConfigFilePath: an empty ConfDir becomes $HOME
withConfDir(c) == IF c.ConfDir = <<>> THEN [c EXCEPT !.ConfDir = HOME] ELSE c

getConfigFilePath(c) == Join(getPathToConfigDir(withConfDir(c)), configFileName)

----------------------------------------------------------------------------
(* Config.createDefaultConfigFile *)

\* content := "dir=" + w.Basedir + "\n"
DirLine(base) == <<"dir", "=", base>>

\* f, err := os.Create(path)
OsCreate(s, p, faults) ==
    IF \/ p = <<>>
       \/ "create" \in faults
       \/ p \in s.dirs
       \/ (Len(p) > 1 /\ Parent(p) \notin s.dirs)
    THEN Fail(s, OsErr("create"))
    ELSE [s EXCEPT !.files = [q \in DOMAIN @ \cup {p} |-> IF q = p THEN <<>> ELSE @[q]]]

\* f.WriteString(content)
WriteString(s, p, content, faults) ==
    IF "write" \in faults THEN Fail(s, OsErr("write"))
    ELSE [s EXCEPT !.files[p] = content]

\* f.Sync()
Sync(s, faults) == IF "sync" \in faults THEN Fail(s, OsErr("sync")) ELSE s

\* if w.Basedir == "" { w.Basedir = os.Getenv("HOME") }; w.Basedir = filepath.Join(w.Basedir, w.Name+"_ws")
defaultBasedir(c) ==
    [c EXCEPT !.Basedir = Join(IF c.Basedir = <<>> THEN HOME ELSE c.Basedir, c.Name \o "_ws")]

createDefaultConfigFile(s, faults) ==
    LET s0 == Called(s, "createDefaultConfigFile")
        configDir == getPathToConfigDir(s0.w)
        s1 == IF PathExists(s0, configDir) THEN s0
              ELSE MkdirAll(s0, configDir, "confdir", faults)
        s2 == [s1 EXCEPT !.w = defaultBasedir(@)]
        s3 == IF PathExists(s2, s2.w.Basedir) THEN s2
              ELSE MkdirAll(s2, s2.w.Basedir, "base", faults)
        s4 == OsCreate(s3, s3.w.ConfigFile, faults)
        s5 == WriteString(s4, s4.w.ConfigFile, <<DirLine(s4.w.Basedir)>>, faults)
    IN IF s0.w.ConfDir = <<>> THEN Fail(s0, Undefined("configuration directory"))
       ELSE IF s0.w.ConfigFile = <<>> THEN Fail(s0, Undefined("configuration file"))
       ELSE IF s1.ret # Nil THEN s1
       ELSE IF s3.ret # Nil THEN s3
       ELSE IF s4.ret # Nil THEN s4
       ELSE IF s5.ret # Nil THEN s5
       ELSE Sync(s5, faults)

----------------------------------------------------------------------------
(* Config.ParseCfg *)

WellFormed(line) == Len(line) = 3 /\ line[2] = "="

\* kv.LoadKeyValueConfig(path) fails on a missing file, a directory or a malformed line
LoadFails(s, p) ==
    \/ p \notin DOMAIN s.files
    \/ \E i \in 1..Len(s.files[p]) : ~WellFormed(s.files[p][i])

\* kv.LoadKeyValueConfig(path): the ordered key-value pairs of the file
LoadKeyValueConfig(s, p) ==
    [i \in 1..Len(s.files[p]) |-> [Key |-> s.files[p][i][1], Value |-> s.files[p][i][3]]]

\* the loop with an unknown key skipped instead of rejected
RECURSIVE ParseLoop_Skip(_, _, _)
ParseLoop_Skip(s, kvs, i) ==
    IF i > Len(kvs) THEN s
    ELSE IF kvs[i].Key = "dir"
         THEN ParseLoop_Skip([s EXCEPT !.w.Basedir = kvs[i].Value], kvs, i + 1)
         ELSE ParseLoop_Skip(s, kvs, i + 1)

\* for _, keyvalue := range kvs { ... }, from the i-th pair on
RECURSIVE ParseLoop(_, _, _)
ParseLoop(s, kvs, i) ==
    IF i > Len(kvs) THEN s
    ELSE IF kvs[i].Key = "dir"
         THEN ParseLoop([s EXCEPT !.w.Basedir = kvs[i].Value], kvs, i + 1)
         ELSE Fail(s, InvalidKey(kvs[i].Key))

ParseCfg(s) ==
    LET s0 == Called(s, "ParseCfg")
    IN IF s0.w.ConfigFile = <<>> THEN Fail(s0, Undefined("configuration file"))
       ELSE IF LoadFails(s0, s0.w.ConfigFile) THEN Fail(s0, OsErr("kv"))
       ELSE ParseLoop(s0, LoadKeyValueConfig(s0, s0.w.ConfigFile), 1)

----------------------------------------------------------------------------
(* Config.Load *)

\* if w.ConfigFile == "" { w.ConfigFile = w.getConfigFilePath() }
setConfigFile(c) ==
    IF c.ConfigFile = <<>>
    THEN [withConfDir(c) EXCEPT !.ConfigFile = getConfigFilePath(c)]
    ELSE c

\* the structure materialized whether or not Basedir exists
ensureStructure_AlwaysInit(s, faults) == Config_Init(s, faults)

\* the file-exists branch of Load, after a successful parse
ensureStructure(s, faults) ==
    IF ~PathExists(s, s.w.Basedir) THEN Config_Init(s, faults)
    ELSE [Called(s, "setStructure") EXCEPT !.w = setStructure(@)]

\* the existence of the file tested before ConfigFile is derived
Config_Load_EarlyCheck(s, faults) ==
    LET s0 == [Called(s, "Load") EXCEPT !.w = setConfigFile(@)]
        boot == createDefaultConfigFile(s0, faults)
        parsed == ParseCfg(s0)
    IN IF ~FileExists(s, s.w.ConfigFile)
       THEN IF boot.ret # Nil THEN boot ELSE Fail(boot, NeedsReview)
       ELSE IF parsed.ret # Nil THEN parsed
       ELSE ensureStructure(parsed, faults)

Config_Load(s, faults) ==
    LET s0 == [Called(s, "Load") EXCEPT !.w = setConfigFile(@)]
        boot == createDefaultConfigFile(s0, faults)
        parsed == ParseCfg(s0)
    IN IF ~FileExists(s0, s0.w.ConfigFile)
       THEN IF boot.ret # Nil THEN boot ELSE Fail(boot, NeedsReview)
       ELSE IF parsed.ret # Nil THEN parsed
       ELSE ensureStructure(parsed, faults)

----------------------------------------------------------------------------
(* Config.checkWorkspaceStructure, Config.InstallSoftware,                 *)
(* Config.GetSoftwareInstallDir                                            *)

Missing(s, sub) == s.w[Field(sub)] = <<>> \/ ~PathExists(s, s.w[Field(sub)])

\* the check with the run directory left out
checkWorkspaceStructure_NoRun(s) ==
    IF Missing(s, "scratch") THEN StructureErr("scratch")
    ELSE IF Missing(s, "install") THEN StructureErr("install")
    ELSE IF Missing(s, "build") THEN StructureErr("build")
    ELSE IF Missing(s, "download") THEN StructureErr("download")
    ELSE Nil

checkWorkspaceStructure(s) ==
    IF Missing(s, "scratch") THEN StructureErr("scratch")
    ELSE IF Missing(s, "install") THEN StructureErr("install")
    ELSE IF Missing(s, "build") THEN StructureErr("build")
    ELSE IF Missing(s, "run") THEN StructureErr("run")
    ELSE IF Missing(s, "download") THEN StructureErr("download")
    ELSE Nil

NoBuilder == [ScratchDir |-> <<>>, InstallDir |-> <<>>, BuildDir |-> <<>>,
              SrcPath |-> <<>>, ConfigureExtraArgs |-> <<>>, Name |-> "", URL |-> "",
              loaded |-> FALSE, installed |-> FALSE]

\* b := new(builder.Builder); b.Env... = ...; b.App.Name = softwareName; b.App.URL = softwareURL
newBuilder(c, softwareName, softwareURL, configArgs) ==
    [ScratchDir |-> c.ScratchDir, InstallDir |-> c.InstallDir,
     BuildDir |-> Join(c.BuildDir, softwareName),
     SrcPath |-> Join(c.DownloadDir, softwareName),
     ConfigureExtraArgs |-> configArgs, Name |-> softwareName, URL |-> softwareURL,
     loaded |-> FALSE, installed |-> FALSE]

\* err = b.Load(true)
BuilderLoad(s, faults) ==
    LET t == [Called(s, "Builder.Load") EXCEPT !.b.loaded = TRUE]
    IN IF "builder load" \in faults THEN Fail(t, OsErr("builder load")) ELSE t

\* res := b.Install()
BuilderInstall(s, faults) ==
    LET t == [Called(s, "Builder.Install") EXCEPT !.b.installed = TRUE]
    IN IF "builder install" \in faults THEN Fail(t, OsErr("builder install")) ELSE t

InstallSoftware(s, softwareName, softwareURL, configArgs, faults) ==
    LET s0 == Called(s, "InstallSoftware")
        err == checkWorkspaceStructure(s0)
        s1 == [s0 EXCEPT !.b = newBuilder(s0.w, softwareName, softwareURL, configArgs)]
        s2 == BuilderLoad(s1, faults)
    IN IF err # Nil THEN Fail(s0, err)
       ELSE IF s2.ret # Nil THEN s2
       ELSE BuilderInstall(s2, faults)

GetSoftwareInstallDir(c, softwareName) == Join(c.InstallDir, softwareName)

----------------------------------------------------------------------------
(* The caller: a Config is constructed with Name and, optionally, ConfDir  *)
(* and Basedir; the disk may already hold a configuration file.            *)

Software == {"ompi"}

URLs == {"https://example.org/ompi.tar.gz"}

ConfigArgs == {<<"--enable-debug">>}

InitLabels == {"base", "download", "scratch", "install", "build", "src", "run"}

LoadLabels == InitLabels \cup {"confdir", "create", "write", "sync"}

BuilderLabels == {"builder load", "builder install"}

\* the calls that fail during one call of the caller: none, or one while the run may still fail
FaultSets(labels) == {{}} \cup {{l} : l \in {x \in labels : nfaults < MaxFaults}}

newConfig(confDir, baseDir) ==
    [Name |-> Name, ConfigFile |-> <<>>, ConfDir |-> confDir, Basedir |-> baseDir,
     DownloadDir |-> <<>>, ScratchDir |-> <<>>, InstallDir |-> <<>>,
     BuildDir |-> <<>>, SrcDir |-> <<>>, RunDir |-> <<>>]

\* configuration files found on disk at start
Contents ==
    { <<>>,
      <<DirLine(<<"data">>)>>,
      <<DirLine(<<"data">>), <<"foo", "=", <<"bar">>>>>>,
      <<<<"foo", "=", <<"bar">>>>, DirLine(<<"data">>)>>,
      <<DirLine(<<"data">>), DirLine(<<"alt">>)>>,
      <<<<"foo", "=", <<"bar">>>>, <<"junk">>>>,
      <<<<"junk">>>> }

Snapshot(s) == [w |-> s.w, dirs |-> s.dirs, files |-> s.files]

Begin == [w |-> w, dirs |-> dirs, files |-> files, calls |-> <<>>, ret |-> Nil, b |-> NoBuilder]

\* the call returns: the receiver and the disk are as the call left them;
\* an injected failure is one that changed what the call did
Return(op, arg, out, t, faults, clean) ==
    /\ faults # {} => t # clean
    /\ w' = t.w
    /\ dirs' = t.dirs
    /\ files' = t.files
    /\ nfaults' = nfaults + Cardinality(faults)
    /\ last' = [op |-> op, arg |-> arg, ret |-> t.ret, out |-> out, calls |-> t.calls,
                b |-> t.b, pre |-> Snapshot(Begin),
                prev |-> [op |-> last.op, ret |-> last.ret]]

Init ==
    \E confDir \in {<<>>, <<"conf">>}, baseDir \in {<<>>, <<"data">>},
       onDisk \in SUBSET {<<"data">>}, present \in BOOLEAN, content \in Contents :
        LET c == newConfig(confDir, baseDir)
            path == getConfigFilePath(c)
            d == {HOME, <<"conf">>} \cup onDisk \cup (IF present THEN {Parent(path)} ELSE {})
            f == IF present THEN [q \in {path} |-> content] ELSE <<>>
        IN /\ (~present => content = <<>>)
           /\ w = c
           /\ dirs = d
           /\ files = f
           /\ nfaults = 0
           /\ last = [op |-> "new", arg |-> "", ret |-> Nil, out |-> <<>>, calls |-> <<>>,
                      b |-> NoBuilder, pre |-> [w |-> c, dirs |-> d, files |-> f],
                      prev |-> [op |-> "none", ret |-> Nil]]

CallLoad ==
    \E faults \in FaultSets(LoadLabels) :
        Return("Load", "", <<>>, Config_Load(Begin, faults), faults, Config_Load(Begin, {}))

CallParseCfg == Return("ParseCfg", "", <<>>, ParseCfg(Begin), {}, Begin)

CallInit ==
    \E faults \in FaultSets(InitLabels) :
        Return("Init", "", <<>>, Config_Init(Begin, faults), faults, Config_Init(Begin, {}))

CallInstallSoftware ==
    \E softwareName \in Software, softwareURL \in URLs, configArgs \in ConfigArgs,
       faults \in FaultSets(BuilderLabels) :
        Return("InstallSoftware", softwareName, <<>>,
               InstallSoftware(Begin, softwareName, softwareURL, configArgs, faults), faults,
               InstallSoftware(Begin, softwareName, softwareURL, configArgs, {}))

CallGetSoftwareInstallDir ==
    \E softwareName \in Software :
        Return("GetSoftwareInstallDir", softwareName,
               GetSoftwareInstallDir(w, softwareName), Begin, {}, Begin)

Next ==
    \/ CallLoad
    \/ CallParseCfg
    \/ CallInit
    \/ CallInstallSoftware
    \/ CallGetSoftwareInstallDir

Spec == Init /\ [][Next]_vars

----------------------------------------------------------------------------
(* Vocabulary of the properties.  last.pre is the receiver and the disk    *)
(* when the last call started; w, dirs, files are what it left.            *)

Now == [w |-> w, dirs |-> dirs, files |-> files]

Made(name) == \E i \in 1..Len(last.calls) : last.calls[i] = name

\* {ConfDir}/.{Name}/workspace.conf, ConfDir being $HOME when it is not set
ConfPath(c) ==
    (IF c.ConfDir = <<>> THEN HOME ELSE c.ConfDir) \o <<"." \o c.Name, "workspace.conf">>

\* the six derived directories of base
Derived(base) == {base \o <<sub>> : sub \in SubNames}

\* every line of the content is dir=<value>
OnlyDirKeys(content) ==
    \A i \in 1..Len(content) :
        Len(content[i]) = 3 /\ content[i][1] = "dir" /\ content[i][2] = "="

\* some line of the content is <key>=<value> with a key other than dir
HasOtherKey(content) ==
    \E i \in 1..Len(content) :
        Len(content[i]) = 3 /\ content[i][2] = "=" /\ content[i][1] # "dir"

\* every line of the content is <key>=<value>
AllPairs(content) ==
    \A i \in 1..Len(content) : Len(content[i]) = 3 /\ content[i][2] = "="

\* the last call was Load and found no configuration file
Bootstrapped == last.op = "Load" /\ ~PathExists(last.pre, ConfPath(last.pre.w))

\* the last call was Load, found a configuration file and parsed it without error
LoadedParsed ==
    /\ last.op = "Load"
    /\ ConfPath(last.pre.w) \in DOMAIN last.pre.files
    /\ OnlyDirKeys(last.pre.files[ConfPath(last.pre.w)])

----------------------------------------------------------------------------
\* C1: a Load that finds no configuration file returns an error; unless an OS
\* call fails during it, that error is the bootstrap signal and a file exists
\* at {ConfDir}/.{Name}/workspace.conf whose content is the single line
\* dir=<Basedir at return>.
C1_FirstRunBootstrap ==
    (Bootstrapped /\ last.pre.w.ConfDir # <<>>) =>
        /\ last.ret # Nil
        /\ last.ret.kind # "os" =>
            /\ last.ret = NeedsReview
            /\ ConfPath(last.pre.w) \in DOMAIN files
            /\ files[ConfPath(last.pre.w)] = << <<"dir", "=", w.Basedir>> >>

C1_Witness ==
    /\ Bootstrapped
    /\ last.pre.w.ConfDir # <<>>
    /\ last.ret = NeedsReview
    /\ ConfPath(last.pre.w) \in DOMAIN files

\* C2: a Load that follows a Load which returned the bootstrap signal returns
\* no error and leaves Basedir and the six derived directories on disk.
C2_SecondRunSuccess ==
    (last.op = "Load" /\ last.prev = [op |-> "Load", ret |-> NeedsReview]) =>
        /\ last.ret = Nil
        /\ w.Basedir \in dirs
        /\ Derived(w.Basedir) \subseteq dirs

\* C3: InstallSoftware called while one of scratch, install, build, run,
\* download has an empty path or is not on disk returns an error and invokes
\* neither Builder.Load nor Builder.Install.
C3_StructureGate ==
    last.op = "InstallSoftware" =>
        LET missing == \E sub \in {"scratch", "install", "build", "run", "download"} :
                           \/ last.pre.w[Field(sub)] = <<>>
                           \/ ~PathExists(last.pre, last.pre.w[Field(sub)])
            invoked == Made("Builder.Load") \/ Made("Builder.Install")
                       \/ last.b.loaded \/ last.b.installed
        IN /\ missing => (last.ret # Nil /\ ~invoked)
           /\ invoked => ~missing

C3_Witness ==
    /\ last.op = "InstallSoftware"
    /\ last.pre.w.ScratchDir # <<>>
    /\ PathExists(last.pre, last.pre.w.ScratchDir)
    /\ ~PathExists(last.pre, last.pre.w.RunDir)
    /\ last.ret.kind = "structure"

\* C4: after a Load, ParseCfg or Init that returned no error, every derived
\* path that has been computed is the current Basedir joined with its
\* subdirectory name (the claim in its weakest reading: the derived paths
\* never computed and the calls that failed are left out).
C4_DerivedPaths ==
    (last.op \in {"Load", "ParseCfg", "Init"} /\ last.ret = Nil) =>
        \A sub \in SubNames :
            w[Field(sub)] # <<>> => w[Field(sub)] = w.Basedir \o <<sub>>

\* C5: ParseCfg on a configuration file that holds a pair whose key is not dir
\* returns the invalid-key error, and returns no error only when every key of
\* the file is dir.
C5_InvalidKey ==
    (last.op = "ParseCfg" /\ last.pre.w.ConfigFile \in DOMAIN last.pre.files) =>
        LET content == last.pre.files[last.pre.w.ConfigFile]
        IN /\ (AllPairs(content) /\ HasOtherKey(content)) => last.ret.kind = "invalid key"
           /\ last.ret = Nil => OnlyDirKeys(content)

C5_Witness ==
    /\ last.op = "ParseCfg"
    /\ last.pre.w.ConfigFile \in DOMAIN last.pre.files
    /\ HasOtherKey(last.pre.files[last.pre.w.ConfigFile])
    /\ last.ret.kind = "invalid key"

\* C6: an Init that follows an Init which returned no error returns no error
\* and leaves the disk and the fields of the Config as they were.
C6_InitIdempotent ==
    (last.op = "Init" /\ last.prev = [op |-> "Init", ret |-> Nil]) =>
        /\ last.ret = Nil
        /\ Now = last.pre

C6_Witness ==
    /\ last.op = "Init"
    /\ last.prev = [op |-> "Init", ret |-> Nil]
    /\ Derived(w.Basedir) \subseteq dirs

\* C7: a bootstrap leaves a Basedir the caller has set as it is: that
\* directory is the one created and the one written to the file; an unset
\* Basedir becomes {home}/{name}_ws.
C7_BootstrapBasedir ==
    Bootstrapped =>
        IF last.pre.w.Basedir = <<>>
        THEN w.Basedir = HOME \o <<"ws_ws">>
        ELSE /\ w.Basedir = last.pre.w.Basedir
             /\ last.ret = NeedsReview =>
                 /\ last.pre.w.Basedir \in dirs
                 /\ files[ConfPath(last.pre.w)] = << <<"dir", "=", last.pre.w.Basedir>> >>

\* C8: an Init that fails to create a derived directory returns an error
\* wrapped with the purpose of that directory and creates no directory after
\* it, for each of download, scratch, install, build, src, run.
C8_InitErrorWrapped ==
    (last.op = "Init" /\ last.ret.what \in SubNames) =>
        /\ last.ret.kind = "wrapped"
        /\ w.Basedir \o <<last.ret.what>> \notin dirs

\* C9: a Load that parsed the file calls Init exactly when Basedir is not on
\* disk; when Basedir is on disk it recomputes the six derived paths and
\* creates no file and no directory.
C9_LoadExistingFile ==
    LoadedParsed =>
        /\ Made("Init") <=> ~PathExists(last.pre, w.Basedir)
        /\ PathExists(last.pre, w.Basedir) =>
            /\ last.ret = Nil
            /\ dirs = last.pre.dirs
            /\ files = last.pre.files
            /\ \A sub \in SubNames : w[Field(sub)] = w.Basedir \o <<sub>>

C9_Witness ==
    /\ LoadedParsed
    /\ PathExists(last.pre, w.Basedir)
    /\ ~(Derived(w.Basedir) \subseteq dirs)
    /\ last.pre.w.DownloadDir # w.DownloadDir

C9_WitnessInit ==
    /\ LoadedParsed
    /\ ~PathExists(last.pre, w.Basedir)
    /\ Made("Init")
    /\ Derived(w.Basedir) \subseteq dirs

\* C10: a configuration file on disk keeps its content through every call,
\* and no Load returns the bootstrap signal while it exists; only a Load
\* that found no file creates one.
C10_WrittenOnce ==
    LET path == ConfPath(last.pre.w)
    IN /\ path \in DOMAIN last.pre.files =>
            /\ path \in DOMAIN files
            /\ files[path] = last.pre.files[path]
            /\ ~(last.op = "Load" /\ last.ret = NeedsReview)
       /\ DOMAIN files # DOMAIN last.pre.files =>
            /\ last.op = "Load"
            /\ DOMAIN last.pre.files = {}
            /\ DOMAIN files = {path}

C10_Witness ==
    /\ last.op = "Load"
    /\ last.prev = [op |-> "Load", ret |-> NeedsReview]
    /\ ConfPath(last.pre.w) \in DOMAIN last.pre.files
    /\ last.ret = Nil

====
